---- MODULE Spec2Model ----
(***************************************************************************)
(* A model of the fat_pointer_hack crate: the Metadata codec (pack/unpack  *)
(* between a metadata value and the usize Tag), the fat reference          *)
(* (data pointer, slice length) built by from_ref / from_ref_mut, its      *)
(* accessors to_plain / to_plain_mut / tag / set_tag, and the ambient      *)
(* RefExt::tag.  Integers wider than TLC's are kept as little-endian       *)
(* sequences of base-256 digits (least significant digit first).           *)
(***************************************************************************)
EXTENDS Integers, Sequences, FiniteSets, TLC

VARIABLES
    width,   \* target_pointer_width of the build: 16, 32 or 64
    endian,  \* byte order of the target: "little" or "big"
    mem,     \* the caller's variables of type P, one per address
    refs,    \* the references the caller holds, plain and fat
    ret,     \* the crate call that has just returned, until the caller goes on
    codec,   \* the latest direct call of Metadata::pack / Metadata::unpack
    hist,    \* history: where each held reference came from
    M        \* the metadata type the caller instantiates the crate with

vars == <<width, endian, mem, refs, ret, codec, hist, M>>

(***************************************************************************)
(* Bounds of the model.                                                    *)
(***************************************************************************)
\* how many references the caller holds at once
MaxRefs == 2

(***************************************************************************)
(* Target facts.                                                           *)
(***************************************************************************)
PointerWidths == {16, 32, 64}
Endians == {"little", "big"}

\* size_of::<usize>() in bytes
WordBytes == width \div 8

(***************************************************************************)
(* Fixed-width unsigned integers as digit sequences.                       *)
(***************************************************************************)
RECURSIVE Digits(_, _)
Digits(n, k) == IF k = 0 THEN <<>> ELSE <<n % 256>> \o Digits(n \div 256, k - 1)

\* `x as uN`: truncation or zero extension to k bytes
Resize(d, k) == [i \in 1..k |-> IF i <= Len(d) THEN d[i] ELSE 0]

Reverse(d) == [i \in 1..Len(d) |-> d[Len(d) + 1 - i]]

AllBytes(b, k) == [i \in 1..k |-> b]

\* The value of a 4-digit number whose top digit is below 128.
U32Value(d) == d[1] + 256 * d[2] + 65536 * d[3] + 16777216 * d[4]

(***************************************************************************)
(* Metadata types and the cfg gates of their impls.                        *)
(***************************************************************************)
MetaTypes == {"usize", "bytes", "f64", "f32", "char"}

\* Supported with the cfg gate of the f64 impl left out.
Supported_f64_ungated(ty) ==
    CASE ty = "usize" -> TRUE
      [] ty = "bytes" -> TRUE
      [] ty = "f64"   -> TRUE
      [] ty = "f32"   -> width \in {32, 64}
      [] ty = "char"  -> width \in {32, 64}

\* Whether the crate has an `impl Metadata for ty` on the target.
Supported(ty) ==
    CASE ty = "usize" -> TRUE
      [] ty = "bytes" -> TRUE
      [] ty = "f64"   -> width = 64
      [] ty = "f32"   -> width \in {32, 64}
      [] ty = "char"  -> width \in {32, 64}

\* size_of of each metadata type, in bytes
SizeOf(ty) ==
    CASE ty = "usize" -> WordBytes
      [] ty = "bytes" -> WordBytes
      [] ty = "f64"   -> 8
      [] ty = "f32"   -> 4
      [] ty = "char"  -> 4

\* struct Tag(usize)
Tag(n) == [val |-> n]

(***************************************************************************)
(* Bit-level views of the primitive types.                                 *)
(***************************************************************************)
\* f32::to_bits: sign(1) exp(8) frac(23) as a u32
f32_to_bits(x) ==
    << x.frac % 256,
       (x.frac \div 256) % 256,
       (x.exp % 2) * 128 + x.frac \div 65536,
       x.sign * 128 + x.exp \div 2 >>

\* f32::from_bits
f32_from_bits(d) ==
    [sign |-> d[4] \div 128,
     exp  |-> (d[4] % 128) * 2 + d[3] \div 128,
     frac |-> (d[3] % 128) * 65536 + d[2] * 256 + d[1]]

\* f64::to_bits: sign(1) exp(11) frac(52) as a u64; frac is hi(20) mid(16) lo(16)
f64_to_bits(x) ==
    << x.lo % 256, x.lo \div 256,
       x.mid % 256, x.mid \div 256,
       x.hi % 256, (x.hi \div 256) % 256,
       (x.exp % 16) * 16 + x.hi \div 65536,
       x.sign * 128 + x.exp \div 16 >>

\* f64::from_bits
f64_from_bits(d) ==
    [sign |-> d[8] \div 128,
     exp  |-> (d[8] % 128) * 16 + d[7] \div 16,
     hi   |-> (d[7] % 16) * 65536 + d[6] * 256 + d[5],
     mid  |-> d[4] * 256 + d[3],
     lo   |-> d[2] * 256 + d[1]]

\* chars: NUL, 'a', the heart of the crate's doc test, the scalar values
\* next to the surrogate gap, char::MAX
CharSamples == {0, 97, 9829, 55295, 57344, 1114111}

\* A char is a Unicode scalar value: 0..0xD7FF or 0xE000..0x10FFFF.
IsScalar(c) == (0 <= c /\ c <= 55295) \/ (57344 <= c /\ c <= 1114111)

\* The u32 bit patterns that are valid chars.
IsScalarBits(d) == d[4] < 128 /\ IsScalar(U32Value(d))

\* A char-typed value that holds no Unicode scalar value.
NotAChar == -1

\* transmute::<char, u32>
char_to_u32(c) == Digits(c, 4)

\* transmute::<u32, char>: undefined behaviour unless the bits are a scalar
\* value; then the build may yield a char that holds the invalid bits, or any
\* char at all.
u32_to_char(d) ==
    IF IsScalarBits(d) THEN {U32Value(d)} ELSE {NotAChar} \cup CharSamples

\* transmute between [u8; N] (memory order) and usize (a number)
bytes_to_usize(b) == IF endian = "little" THEN b ELSE Reverse(b)
usize_to_bytes(n) == IF endian = "little" THEN n ELSE Reverse(n)

(***************************************************************************)
(* impl Metadata for usize / [u8; N] / f64 / f32 / char                    *)
(***************************************************************************)
usize_pack(self) == Tag(self)
usize_unpack(val) == {val.val}

bytes_pack(self) == Tag(bytes_to_usize(self))
bytes_unpack(val) == {usize_to_bytes(val.val)}

\* f64_unpack with the f32 impl's cast: from_bits(val.0 as u32 as u64)
f64_unpack_u32(val) == {f64_from_bits(Resize(Resize(val.val, 4), 8))}

f64_pack(self) == Tag(Resize(f64_to_bits(self), WordBytes))
f64_unpack(val) == {f64_from_bits(Resize(val.val, 8))}

\* f32_pack with a sign-extending cast: self.to_bits() as i32 as usize
f32_pack_signext(self) ==
    LET d == f32_to_bits(self)
    IN  Tag([i \in 1..WordBytes |->
                IF i <= 4 THEN d[i] ELSE IF d[4] >= 128 THEN 255 ELSE 0])

f32_pack(self) == Tag(Resize(f32_to_bits(self), WordBytes))
f32_unpack(val) == {f32_from_bits(Resize(val.val, 4))}

char_pack(self) == Tag(Resize(char_to_u32(self), WordBytes))
char_unpack(val) == u32_to_char(Resize(val.val, 4))

\* M::pack(v)
pack(ty, v) ==
    CASE ty = "usize" -> usize_pack(v)
      [] ty = "bytes" -> bytes_pack(v)
      [] ty = "f64"   -> f64_pack(v)
      [] ty = "f32"   -> f32_pack(v)
      [] ty = "char"  -> char_pack(v)

\* M::unpack(tag): the set of values the call may return
unpack(ty, t) ==
    CASE ty = "usize" -> usize_unpack(t)
      [] ty = "bytes" -> bytes_unpack(t)
      [] ty = "f64"   -> f64_unpack(t)
      [] ty = "f32"   -> f32_unpack(t)
      [] ty = "char"  -> char_unpack(t)

(***************************************************************************)
(* Metadata values the callers of the model draw from.                     *)
(***************************************************************************)
\* usize: 0, the doc test's 9001 and 1337, 0xD800, 255, usize::MAX
UsizeSamples ==
    {Digits(n, WordBytes) : n \in {0, 9001, 1337, 55296, 255}}
        \cup {AllBytes(255, WordBytes)}

\* [u8; N]: zeros, 1..N, a surrogate in the low bytes, 0xFF..
BytesSamples ==
    {AllBytes(0, WordBytes), [i \in 1..WordBytes |-> i],
     [i \in 1..WordBytes |-> IF i = 2 THEN 216 ELSE 0],
     AllBytes(255, WordBytes)}

\* f32: 0.9, -0.0, +inf, -inf, a quiet NaN, a signalling NaN with a payload,
\* the negative NaN of all ones
F32Samples ==
    {[sign |-> 0, exp |-> 126, frac |-> 6710886],
     [sign |-> 1, exp |-> 0, frac |-> 0],
     [sign |-> 0, exp |-> 255, frac |-> 0],
     [sign |-> 1, exp |-> 255, frac |-> 0],
     [sign |-> 0, exp |-> 255, frac |-> 4194304],
     [sign |-> 0, exp |-> 255, frac |-> 1],
     [sign |-> 1, exp |-> 255, frac |-> 8388607]}

\* f64: 0.9, -0.0, +inf, -inf, a quiet NaN, a signalling NaN with a payload,
\* the negative NaN of all ones
F64Samples ==
    {[sign |-> 0, exp |-> 1022, hi |-> 838860, mid |-> 52428, lo |-> 52429],
     [sign |-> 1, exp |-> 0, hi |-> 0, mid |-> 0, lo |-> 0],
     [sign |-> 0, exp |-> 2047, hi |-> 0, mid |-> 0, lo |-> 0],
     [sign |-> 1, exp |-> 2047, hi |-> 0, mid |-> 0, lo |-> 0],
     [sign |-> 0, exp |-> 2047, hi |-> 524288, mid |-> 0, lo |-> 0],
     [sign |-> 0, exp |-> 2047, hi |-> 0, mid |-> 0, lo |-> 1],
     [sign |-> 1, exp |-> 2047, hi |-> 1048575, mid |-> 65535, lo |-> 65535]}

Samples(ty) ==
    CASE ty = "usize" -> UsizeSamples
      [] ty = "bytes" -> BytesSamples
      [] ty = "f64"   -> F64Samples
      [] ty = "f32"   -> F32Samples
      [] ty = "char"  -> CharSamples

(***************************************************************************)
(* Direct calls of the codec: Metadata and Tag are public, so a caller can *)
(* pack a value of one type and hand the Tag to any type's unpack.         *)
(***************************************************************************)
NoCall == [op |-> "none"]

PackCall(ty, v) ==
    /\ Supported(ty)
    /\ codec.op # "pack"
    /\ codec' = [op |-> "pack", ty |-> ty, v |-> v, tag |-> pack(ty, v)]
    /\ UNCHANGED <<width, endian, mem, refs, ret, hist, M>>

\* Tag is neither Copy nor Clone: unpack consumes the Tag the caller holds.
UnpackCall(uty) ==
    /\ Supported(uty)
    /\ codec.op = "pack"
    /\ \E out \in unpack(uty, codec.tag) :
          codec' = [op |-> "unpack", ty |-> codec.ty, v |-> codec.v,
                    tag |-> codec.tag, uty |-> uty, out |-> out]
    /\ UNCHANGED <<width, endian, mem, refs, ret, hist, M>>

(***************************************************************************)
(* References.  A reference is a record: a plain one is an address, a fat  *)
(* one an address and the length word of the `unsize: [()]` tail.  `loan`  *)
(* is the variable the borrow checker holds borrowed for the reference's   *)
(* lifetime, or NoLoan when that lifetime is tied to no borrow.            *)
(***************************************************************************)
\* The caller's variable x of type P, named by its address.
Locs == {1}
RefIds == 1..MaxRefs
NoLoan == 0
PVals == {5, 6}

NoRef == [kind |-> "none", mut |-> FALSE, addr |-> 0, len |-> <<>>,
          meta |-> "none", loan |-> NoLoan]

PlainRef(m, a, l) == [kind |-> "plain", mut |-> m, addr |-> a, len |-> <<>>,
                      meta |-> "none", loan |-> l]

\* &FatPointee<P, M> / &mut FatPointee<P, M>: (data pointer, slice length)
FatRefRepr(m, a, n, ty, l) == [kind |-> "fat", mut |-> m, addr |-> a, len |-> n,
                               meta |-> ty, loan |-> l]

\* offset of the field `pointee` in the #[repr(C)] struct FatPointee
OffsetOfPointee == 0

\* FatRefExt::from_ref for Self = FatRef<'a, P, M>; `lt` is the loan of 'a,
\* which the signature leaves unrelated to thin_ref's own lifetime.
from_ref(thin_ref, ty, m, lt) ==
    FatRefRepr(FALSE, thin_ref.addr, pack(ty, m).val, ty, lt)

\* to_plain that borrows the field after the pointee: &self.unsize
to_plain_past(self) == PlainRef(FALSE, self.addr + 1, self.loan)

\* FatRefExt::to_plain: &self.pointee, for the lifetime 'a
to_plain(self) == PlainRef(FALSE, self.addr + OffsetOfPointee, self.loan)

\* FatRefExt::tag: M::unpack(Tag(self.unsize.len()))
tag(self) == unpack(self.meta, Tag(self.len))

\* set_tag that builds the new fat reference and does not store it
set_tag_lost(self, m) == self

\* FatRefExt::set_tag: *self = Self::from_ref(self.to_plain(), tag)
set_tag(self, m) == from_ref(to_plain(self), self.meta, m, self.loan)

\* FatRefMutExt::from_ref_mut for Self = FatRefMut<'a, P, M>
from_ref_mut(thin_ref, ty, m, lt) ==
    FatRefRepr(TRUE, thin_ref.addr, pack(ty, m).val, ty, lt)

\* FatRefMutExt::to_plain_mut: &mut self.pointee, for the lifetime 'a
to_plain_mut(self) == PlainRef(TRUE, self.addr + OffsetOfPointee, self.loan)

\* RefExt::tag whose impl for &'a mut T calls from_ref as the impl for &'a T
ref_tag_shared(self, ty, m) == from_ref(self, ty, m, self.loan)

\* RefExt::tag for &'a T and for &'a mut T
ref_tag(self, ty, m) ==
    IF self.mut THEN from_ref_mut(self, ty, m, self.loan)
                ELSE from_ref(self, ty, m, self.loan)

(***************************************************************************)
(* The caller: a safe Rust program that the borrow checker accepts.        *)
(***************************************************************************)
\* Metadata literals the caller tags with.
TagSamples(ty) ==
    CASE ty = "usize" -> {Digits(9001, WordBytes), Digits(1337, WordBytes)}
      [] ty = "bytes" -> {[i \in 1..WordBytes |-> i], AllBytes(255, WordBytes)}
      [] ty = "f64"   -> {[sign |-> 0, exp |-> 1022, hi |-> 838860,
                           mid |-> 52428, lo |-> 52429],
                          [sign |-> 1, exp |-> 2047, hi |-> 1, mid |-> 0, lo |-> 1]}
      [] ty = "f32"   -> {[sign |-> 0, exp |-> 126, frac |-> 6710886],
                          [sign |-> 1, exp |-> 255, frac |-> 1]}
      [] ty = "char"  -> {9829, 1114111}

NoRet == [op |-> "none", id |-> 0]
\* hist[i]: the address of the reference i was made from (origin) and the
\* metadata established on it last (est).
NoHist == [origin |-> 0, est |-> <<>>]

\* No call has just returned.
Idle == ret.op = "none"

\* A call on reference i can come next: after the caller has gone on, or
\* straight after the call that made or changed i, as in
\* fat_ref.set_tag(1337); assert_eq!(fat_ref.tag(), 1337);
Ready(i) == Idle \/ ret.id = i

Held(i) == refs[i].kind # "none"
\* The caller names a new reference by the first name not in use.
Fresh(j) == ~Held(j) /\ \A k \in 1..(j - 1) : Held(k)
\* The references whose lifetime keeps variable x borrowed.
Borrowers(x) == {i \in RefIds : Held(i) /\ refs[i].loan = x}

\* let x = v;
Declare(x, v) ==
    /\ Idle
    /\ ~mem[x].live
    /\ mem' = [mem EXCEPT ![x] = [live |-> TRUE, val |-> v]]
    /\ ret' = NoRet
    /\ UNCHANGED <<width, endian, refs, codec, hist, M>>

\* x = v;  rejected while x is borrowed
Assign(x, v) ==
    /\ Idle
    /\ mem[x].live
    /\ Borrowers(x) = {}
    /\ mem[x].val # v
    /\ mem' = [mem EXCEPT ![x].val = v]
    /\ ret' = NoRet
    /\ UNCHANGED <<width, endian, refs, codec, hist, M>>

\* x goes out of scope; rejected while x is borrowed
EndScope(x) ==
    /\ Idle
    /\ mem[x].live
    /\ Borrowers(x) = {}
    /\ mem' = [mem EXCEPT ![x] = [live |-> FALSE, val |-> 0]]
    /\ ret' = NoRet
    /\ UNCHANGED <<width, endian, refs, codec, hist, M>>

\* let r = &x;  rejected while x is mutably borrowed
BorrowShared(x, i) ==
    /\ Idle
    /\ mem[x].live
    /\ Fresh(i)
    /\ \A j \in Borrowers(x) : ~refs[j].mut
    /\ refs' = [refs EXCEPT ![i] = PlainRef(FALSE, x, x)]
    /\ hist' = [hist EXCEPT ![i] = [origin |-> x, est |-> <<>>]]
    /\ ret' = NoRet
    /\ UNCHANGED <<width, endian, mem, codec, M>>

\* let r = &mut x;  rejected while x is borrowed
BorrowMut(x, i) ==
    /\ Idle
    /\ mem[x].live
    /\ Fresh(i)
    /\ Borrowers(x) = {}
    /\ refs' = [refs EXCEPT ![i] = PlainRef(TRUE, x, x)]
    /\ hist' = [hist EXCEPT ![i] = [origin |-> x, est |-> <<>>]]
    /\ ret' = NoRet
    /\ UNCHANGED <<width, endian, mem, codec, M>>

\* the last use of a reference
Drop(i) ==
    /\ Idle
    /\ Held(i)
    /\ refs' = [refs EXCEPT ![i] = NoRef]
    /\ hist' = [hist EXCEPT ![i] = NoHist]
    /\ ret' = NoRet
    /\ UNCHANGED <<width, endian, mem, codec, M>>

\* let s = r;  shared references, plain and fat, are Copy
CopyRef(i, j) ==
    /\ Idle
    /\ Held(i)
    /\ ~refs[i].mut
    /\ Fresh(j)
    /\ refs' = [refs EXCEPT ![j] = refs[i]]
    /\ hist' = [hist EXCEPT ![j] = hist[i]]
    /\ ret' = NoRet
    /\ UNCHANGED <<width, endian, mem, codec, M>>

(***************************************************************************)
(* Calls into the crate.                                                   *)
(***************************************************************************)
\* let f = FatRef::from_ref(p, m);  p is Copy and stays.  With `bound` the
\* caller names the same lifetime for p and for Self; without, Self's
\* lifetime is any other, and the borrow of p ends with the call.
FromRef(i, j, ty, m, bound) ==
    /\ Idle
    /\ Held(i) /\ refs[i].kind = "plain" /\ ~refs[i].mut
    /\ Fresh(j)
    /\ Supported(ty)
    /\ LET lt == IF bound THEN refs[i].loan ELSE NoLoan
       IN  refs' = [refs EXCEPT ![j] = from_ref(refs[i], ty, m, lt)]
    /\ hist' = [hist EXCEPT ![j] = [origin |-> refs[i].addr, est |-> m]]
    /\ ret' = [op |-> "from_ref", id |-> j, src |-> refs[i], arg |-> m]
    /\ UNCHANGED <<width, endian, mem, codec, M>>

\* let f = FatRefMut::from_ref_mut(q, m);  with `bound` q is reborrowed for
\* as long as f lives (f takes q's place); without, q is reborrowed for the
\* call alone and stays usable beside f.
FromRefMut(i, j, ty, m, bound) ==
    /\ Idle
    /\ Held(i) /\ refs[i].kind = "plain" /\ refs[i].mut
    /\ Fresh(j)
    /\ Supported(ty)
    /\ LET lt == IF bound THEN refs[i].loan ELSE NoLoan
           f  == from_ref_mut(refs[i], ty, m, lt)
           h  == [origin |-> refs[i].addr, est |-> m]
       IN  IF bound
           THEN /\ refs' = [refs EXCEPT ![i] = NoRef, ![j] = f]
                /\ hist' = [hist EXCEPT ![i] = NoHist, ![j] = h]
           ELSE /\ refs' = [refs EXCEPT ![j] = f]
                /\ hist' = [hist EXCEPT ![j] = h]
    /\ ret' = [op |-> "from_ref_mut", id |-> j, src |-> refs[i], arg |-> m]
    /\ UNCHANGED <<width, endian, mem, codec, M>>

\* let f = r.tag(m);  RefExt::tag takes r by value: a shared r is copied,
\* an exclusive r is moved.
AmbientTag(i, j, ty, m) ==
    /\ Idle
    /\ Held(i) /\ refs[i].kind = "plain"
    /\ Fresh(j)
    /\ Supported(ty)
    /\ LET f == ref_tag(refs[i], ty, m)
           h == [origin |-> refs[i].addr, est |-> m]
       IN  IF refs[i].mut
           THEN /\ refs' = [refs EXCEPT ![i] = NoRef, ![j] = f]
                /\ hist' = [hist EXCEPT ![i] = NoHist, ![j] = h]
           ELSE /\ refs' = [refs EXCEPT ![j] = f]
                /\ hist' = [hist EXCEPT ![j] = h]
    /\ ret' = [op |-> "ambient", id |-> j, src |-> refs[i], arg |-> m]
    /\ UNCHANGED <<width, endian, mem, codec, M>>

\* let p = f.to_plain();  f is Copy and stays
ToPlain(i, j) ==
    /\ Ready(i)
    /\ Held(i) /\ refs[i].kind = "fat" /\ ~refs[i].mut
    /\ Fresh(j)
    /\ refs' = [refs EXCEPT ![j] = to_plain(refs[i])]
    /\ hist' = [hist EXCEPT ![j] = [hist[i] EXCEPT !.est = <<>>]]
    /\ ret' = [op |-> "to_plain", id |-> j, src |-> refs[i], prev |-> ret.op]
    /\ UNCHANGED <<width, endian, mem, codec, M>>

\* let q = f.to_plain_mut();  f is moved into the call
ToPlainMut(i) ==
    /\ Idle
    /\ Held(i) /\ refs[i].kind = "fat" /\ refs[i].mut
    /\ refs' = [refs EXCEPT ![i] = to_plain_mut(refs[i])]
    /\ hist' = [hist EXCEPT ![i] = [hist[i] EXCEPT !.est = <<>>]]
    /\ ret' = [op |-> "to_plain_mut", id |-> i, src |-> refs[i]]
    /\ UNCHANGED <<width, endian, mem, codec, M>>

\* f.tag();  on a FatRefMut the receiver is the shared reborrow &*f
TagCall(i) ==
    /\ Ready(i)
    /\ Held(i) /\ refs[i].kind = "fat"
    /\ \E v \in tag(refs[i]) :
          ret' = [op |-> "tag", id |-> i, val |-> v, prev |-> ret.op]
    /\ UNCHANGED <<width, endian, mem, refs, codec, hist, M>>

\* set_tag that keeps the metadata in a store keyed by the pointee's address:
\* every fat reference to that pointee sees the new tag
SetTag_store(i, ty, m) ==
    /\ Idle
    /\ Held(i) /\ refs[i].kind = "fat" /\ ~refs[i].mut
    /\ refs[i].meta = ty
    /\ refs' = [k \in RefIds |->
                  IF refs[k].kind = "fat" /\ refs[k].addr = refs[i].addr
                  THEN [refs[k] EXCEPT !.len = pack(ty, m).val]
                  ELSE refs[k]]
    /\ hist' = [k \in RefIds |->
                  IF refs[k].kind = "fat" /\ refs[k].addr = refs[i].addr
                  THEN [hist[k] EXCEPT !.est = m]
                  ELSE hist[k]]
    /\ ret' = [op |-> "set_tag", id |-> i, src |-> refs[i], arg |-> m]
    /\ UNCHANGED <<width, endian, mem, codec, M>>

\* f.set_tag(m);  only FatRef has set_tag
SetTag(i, ty, m) ==
    /\ Idle
    /\ Held(i) /\ refs[i].kind = "fat" /\ ~refs[i].mut
    /\ refs[i].meta = ty
    /\ refs' = [refs EXCEPT ![i] = set_tag(refs[i], m)]
    /\ hist' = [hist EXCEPT ![i].est = m]
    /\ ret' = [op |-> "set_tag", id |-> i, src |-> refs[i], arg |-> m]
    /\ UNCHANGED <<width, endian, mem, codec, M>>

\* *r, or *f.as_ref() on a fat reference.  Reading a variable that is gone
\* is undefined behaviour: the read may yield anything.
Read(i) ==
    /\ Idle
    /\ Held(i)
    /\ LET a == refs[i].addr
       IN  \E v \in (IF mem[a].live THEN {mem[a].val} ELSE PVals \cup {0}) :
             ret' = [op |-> "read", id |-> i, val |-> v, prev |-> ret.op]
    /\ UNCHANGED <<width, endian, mem, refs, codec, hist, M>>

\* *q = v, or *f.as_mut() = v on a FatRefMut.  A write to a variable that is
\* gone is undefined behaviour; the model leaves the memory as it is.
Write(i, v) ==
    /\ Idle
    /\ Held(i) /\ refs[i].mut
    /\ LET a == refs[i].addr
       IN  mem' = IF mem[a].live THEN [mem EXCEPT ![a].val = v] ELSE mem
    /\ ret' = NoRet
    /\ UNCHANGED <<width, endian, refs, codec, hist, M>>

\* The caller takes what the call returned and goes on.
TakeResult ==
    /\ ~Idle
    /\ ret' = NoRet
    /\ UNCHANGED <<width, endian, mem, refs, codec, hist, M>>

(***************************************************************************)
(* Specifications.                                                         *)
(***************************************************************************)
Init ==
    /\ width \in PointerWidths
    /\ endian \in Endians
    /\ M \in {ty \in MetaTypes : Supported(ty)}
    /\ mem = [x \in Locs |-> [live |-> FALSE, val |-> 0]]
    /\ refs = [i \in RefIds |-> NoRef]
    /\ hist = [i \in RefIds |-> NoHist]
    /\ ret = NoRet
    /\ codec = NoCall

Next ==
    \/ \E x \in Locs, v \in PVals : Declare(x, v)
    \/ \E x \in Locs, v \in PVals : Assign(x, v)
    \/ \E x \in Locs : EndScope(x)
    \/ \E x \in Locs, i \in RefIds : BorrowShared(x, i)
    \/ \E x \in Locs, i \in RefIds : BorrowMut(x, i)
    \/ \E i \in RefIds : Drop(i)
    \/ \E i, j \in RefIds : CopyRef(i, j)
    \/ \E i, j \in RefIds, b \in BOOLEAN, m \in TagSamples(M) : FromRef(i, j, M, m, b)
    \/ \E i, j \in RefIds, b \in BOOLEAN, m \in TagSamples(M) : FromRefMut(i, j, M, m, b)
    \/ \E i, j \in RefIds, m \in TagSamples(M) : AmbientTag(i, j, M, m)
    \/ \E i, j \in RefIds : ToPlain(i, j)
    \/ \E i \in RefIds : ToPlainMut(i)
    \/ \E i \in RefIds : TagCall(i)
    \/ \E i \in RefIds, m \in TagSamples(M) : SetTag(i, M, m)
    \/ \E i \in RefIds : Read(i)
    \/ \E i \in RefIds, v \in PVals : Write(i, v)
    \/ TakeResult

Spec == Init /\ [][Next]_vars

\* The codec called directly, on every metadata value of the samples.
NextCodec ==
    \/ \E ty \in MetaTypes : \E v \in Samples(ty) : PackCall(ty, v)
    \/ \E uty \in MetaTypes : UnpackCall(uty)

SpecCodec == Init /\ [][NextCodec]_vars

(***************************************************************************)
(* Values of the metadata types.                                           *)
(***************************************************************************)
IsWord(n, k) == Len(n) = k /\ \A b \in 1..k : n[b] \in 0..255

\* v is a value of type ty
IsValue(ty, v) ==
    CASE ty = "usize" -> IsWord(v, WordBytes)
      [] ty = "bytes" -> IsWord(v, WordBytes)
      [] ty = "f64"   -> /\ v.sign \in 0..1 /\ v.exp \in 0..2047
                         /\ v.hi \in 0..1048575 /\ v.mid \in 0..65535
                         /\ v.lo \in 0..65535
      [] ty = "f32"   -> v.sign \in 0..1 /\ v.exp \in 0..255 /\ v.frac \in 0..8388607
      [] ty = "char"  -> IsScalar(v)

\* The words that ty's pack can produce: a word of the target, zero above
\* the type's own bytes, and for char the bits of a scalar value.
ValidSlot(ty, n) ==
    /\ IsWord(n, WordBytes)
    /\ \A b \in (SizeOf(ty) + 1)..WordBytes : n[b] = 0
    /\ ty = "char" => IsScalarBits(Resize(n, 4))

\* n is pack(v) of some value v of type ty
InImage(ty, n) ==
    \E v \in unpack(ty, Tag(n)) : IsValue(ty, v) /\ pack(ty, v).val = n

IsFat(i) == refs[i].kind = "fat"

(***************************************************************************)
(* C1: tag() returns the metadata most recently established on that fat    *)
(* reference, by from_ref / from_ref_mut / the ambient tag or by the last  *)
(* set_tag.                                                                *)
(***************************************************************************)
C1_TagObservesLatest ==
    /\ \A i \in RefIds : IsFat(i) => tag(refs[i]) = {hist[i].est}
    /\ ret.op = "tag" => ret.val = hist[ret.id].est
    /\ ret.op \in {"from_ref", "from_ref_mut", "ambient", "set_tag"}
         => tag(refs[ret.id]) = {ret.arg}

\* tag() has been called straight after set_tag
C1_Witness ==
    /\ ret.op = "tag"
    /\ ret.prev = "set_tag"
    /\ IsFat(ret.id)
    /\ ret.val = hist[ret.id].est

(***************************************************************************)
(* C2: the address of a fat reference is the address of the plain          *)
(* reference it was built from, set_tag leaves it alone, and the plain     *)
(* reference recovered from it has that address and reads the pointee.     *)
(***************************************************************************)
C2_AddressPreserved ==
    /\ \A i \in RefIds : Held(i) => refs[i].addr = hist[i].origin
    /\ ret.op \in {"from_ref", "from_ref_mut", "ambient", "set_tag",
                   "to_plain", "to_plain_mut"}
         => refs[ret.id].addr = ret.src.addr
    /\ (ret.op = "read" /\ mem[hist[ret.id].origin].live)
         => ret.val = mem[hist[ret.id].origin].val

\* to_plain has recovered a plain reference from a fat one straight after
\* set_tag, while the pointee lives
C2_Witness ==
    /\ ret.op = "to_plain"
    /\ ret.prev = "set_tag"
    /\ refs[ret.id].kind = "plain"
    /\ ret.src.kind = "fat"
    /\ mem[refs[ret.id].addr].live

(***************************************************************************)
(* C3: an exclusive reference, fat or plain, never coexists with another   *)
(* held reference to the same value, and the value does not change while a *)
(* shared fat reference to it is held.                                     *)
(***************************************************************************)
ExclusiveIsAlone ==
    \A i, j \in RefIds :
        (i # j /\ Held(i) /\ Held(j) /\ refs[i].addr = refs[j].addr)
            => (~refs[i].mut /\ ~refs[j].mut)

NoMutationUnderSharedFat ==
    \A i \in RefIds :
        (IsFat(i) /\ ~refs[i].mut /\ refs'[i] = refs[i] /\ mem[refs[i].addr].live)
            => mem'[refs[i].addr] = mem[refs[i].addr]

C3_BorrowDiscipline == [](ExclusiveIsAlone) /\ [][NoMutationUnderSharedFat]_vars

(***************************************************************************)
(* C4: every held reference, fat or recovered, points at a live value.     *)
(***************************************************************************)
C4_PointsAtLiveValue ==
    \A i \in RefIds : Held(i) => mem[hist[i].origin].live

(***************************************************************************)
(* C5: unpack(pack(v)) = v, bit for bit, for every metadata type.          *)
(***************************************************************************)
C5_RoundTrip ==
    (codec.op = "unpack" /\ codec.uty = codec.ty) => codec.out = codec.v

\* an f32 NaN with a payload has made the round trip on a 64-bit target
C5_Witness ==
    /\ codec.op = "unpack" /\ codec.uty = codec.ty
    /\ codec.ty = "f32" /\ width = 64
    /\ codec.v.exp = 255 /\ codec.v.frac = 1

(***************************************************************************)
(* C6: unpack returns a valid value of its type for every Tag a caller can *)
(* pass, whichever type's pack made the Tag.                               *)
(***************************************************************************)
C6_UnpackTotal ==
    codec.op = "unpack" => IsValue(codec.uty, codec.out)

(***************************************************************************)
(* C7 as claimed: the metadata type of every fat reference is exactly one  *)
(* machine word in size.                                                   *)
(***************************************************************************)
C7_ExactlyOneWord ==
    \A i \in RefIds : IsFat(i) => SizeOf(refs[i].meta) = WordBytes

(***************************************************************************)
(* C7 as amended: every type the crate implements Metadata for is at most  *)
(* one machine word in size (usize and [u8; N] exactly one), and only such *)
(* a type is the metadata type of a fat reference.                         *)
(***************************************************************************)
C7_AtMostOneWord ==
    /\ \A ty \in MetaTypes : Supported(ty) => SizeOf(ty) <= WordBytes
    /\ \A ty \in {"usize", "bytes"} : Supported(ty) /\ SizeOf(ty) = WordBytes
    /\ \A i \in RefIds : IsFat(i) =>
          Supported(refs[i].meta) /\ SizeOf(refs[i].meta) <= WordBytes

\* a fat reference tagged with a 4-byte f32 on a 64-bit target
C7_Witness ==
    \E i \in RefIds : IsFat(i) /\ refs[i].meta = "f32" /\ width = 64

(***************************************************************************)
(* C8: r.tag(m) is from_ref(r, m) for a shared r and from_ref_mut(r, m)    *)
(* for an exclusive r, at r's own lifetime: same address, Slot and loan.   *)
(***************************************************************************)
C8_AmbientIsFromRef ==
    ret.op = "ambient" =>
        /\ refs[ret.id] = IF ret.src.mut
                          THEN from_ref_mut(ret.src, M, ret.arg, ret.src.loan)
                          ELSE from_ref(ret.src, M, ret.arg, ret.src.loan)
        /\ refs[ret.id].kind = "fat"
        /\ refs[ret.id].mut = ret.src.mut
        /\ refs[ret.id].addr = ret.src.addr
        /\ refs[ret.id].len = pack(M, ret.arg).val
        /\ refs[ret.id].loan = ret.src.loan

\* the ambient tag of an exclusive reference has returned a FatRefMut
C8_Witness ==
    /\ ret.op = "ambient"
    /\ ret.src.mut
    /\ refs[ret.id].mut
    /\ refs[ret.id].loan # NoLoan

(***************************************************************************)
(* C9: the Slot of every fat reference of metadata type M is a word that   *)
(* M's pack produces, and it is pack of the value established last.        *)
(***************************************************************************)
C9_SlotInImage ==
    \A i \in RefIds : IsFat(i) =>
        /\ refs[i].meta = M
        /\ ValidSlot(refs[i].meta, refs[i].len)
        /\ InImage(refs[i].meta, refs[i].len)
        /\ refs[i].len = pack(refs[i].meta, hist[i].est).val

\* set_tag has written the Slot of a fat reference tagged with an f32 whose
\* sign bit is set, on a 64-bit target
C9_Witness ==
    /\ ret.op = "set_tag" /\ width = 64 /\ M = "f32"
    /\ ret.arg.sign = 1
    /\ ret.src.len # refs[ret.id].len

(***************************************************************************)
(* C10: set_tag replaces the Slot of its own fat reference and nothing     *)
(* else: not the pointee, not any other reference, copies of the same fat  *)
(* reference included.  from_ref, from_ref_mut, to_plain, tag and dropping *)
(* a reference change neither the pointee nor any other reference.         *)
(***************************************************************************)
Others(S) == \A k \in RefIds \ S : refs'[k] = refs[k]

\* The call that returns in a step is named by ret'.  from_ref_mut and the
\* ambient tag take their argument by value: an exclusive reference moves
\* into the call.
C10_Frame ==
    [][ /\ (Idle /\ ret'.op = "set_tag") =>
              /\ mem' = mem /\ Others({ret'.id})
              /\ refs'[ret'.id] =
                    [refs[ret'.id] EXCEPT !.len = pack(M, ret'.arg).val]
        /\ ((Idle /\ ret'.op = "from_ref") \/ ret'.op = "to_plain") =>
              mem' = mem /\ Others({ret'.id})
        /\ (Idle /\ ret'.op \in {"from_ref_mut", "ambient"}) =>
              /\ mem' = mem
              /\ \E i \in RefIds : refs[i] = ret'.src /\ Others({i, ret'.id})
        /\ ret'.op = "tag" => mem' = mem /\ Others({})
        /\ \A i \in RefIds :
              (Idle /\ ret'.op = "none" /\ Drop(i)) => mem' = mem /\ Others({i})
      ]_vars

\* set_tag has changed one fat reference while a copy of it keeps the old Slot
C10_Witness ==
    /\ ret.op = "set_tag"
    /\ \E j \in RefIds \ {ret.id} :
          /\ IsFat(j)
          /\ refs[j] = ret.src
          /\ refs[j].len # refs[ret.id].len
          /\ refs[j].addr = refs[ret.id].addr

====
